---- MODULE Spec2Model ----
(***************************************************************************)
(* The LightRAG MCP HTTP servers: mcp_server.py (MCPHandler) and           *)
(* simple_mcp_server.py (SimpleHTTPRequestHandler).  Both are served by    *)
(* http.server.HTTPServer.serve_forever, which handles one connection at a *)
(* time: a handler runs to its return before the next connection is        *)
(* accepted.  The process-wide event_queue is the only state that outlives *)
(* a handler.                                                              *)
(***************************************************************************)
EXTENDS Integers, Sequences, FiniteSets, TLC

VARIABLES
    variant,      \* which server program runs: "mcp_server" or "simple_mcp_server"
    environ,      \* os.environ: the LLM_BINDING / EMBEDDING_BINDING kind
    conns,        \* number of client connections that have arrived so far
    cur,          \* index of the connection being (or last) handled; 0 before the first
    pc,           \* position of the handler of connection cur
    req,          \* the request read on connection cur
    broken,       \* peer of connection cur is gone: every later write raises
    result,       \* do_POST's local `response`, once computed
    calls,        \* requests.post calls made by the handler of connection cur
    response,     \* what has been written to cur's client as the HTTP response
    emitted,      \* SSE events written (and flushed) to cur's client, in order
    ticks,        \* the inner loop's position: sleeps done in the current 30-cycle
    totalTicks,   \* sleeps done by the session of connection cur in all
    event_queue,  \* the process-wide queue.Queue()
    published,    \* every event ever put on event_queue, in order (history)
    taken,        \* event id -> sequence of sessions that dequeued it (history)
    sent          \* event id -> sequence of sessions that emitted it (history)

vars == <<variant, environ, conns, cur, pc, req, broken, result, calls, response,
          emitted, ticks, totalTicks, event_queue, published, taken, sent>>

-----------------------------------------------------------------------------
(* Bounds of the exploration *)

\* connections that arrive in the streaming workload
MaxConns == 4

\* sleeps a session is followed for in the streaming workload
MaxTicks == 61

\* connections that arrive in the request workload
MaxReqConns == 2

\* sleeps a session is followed for in the request workload
MaxReqTicks == 1

\* events that wait in event_queue before the first session of the backlog workload
MaxBacklog == 32

\* connections that follow the backlog in the backlog workload
MaxBacklogConns == 2

(* Program constants *)

\* for _ in range(30)
N == 30

Variants == {"mcp_server", "simple_mcp_server"}

-----------------------------------------------------------------------------
(* Python values *)

None == [t |-> "None"]

EmptyDict == [k \in {} |-> None]

PyStr(s) == [t |-> "str", v |-> s]

PyInt(n) == [t |-> "int", v |-> n]

PyList(items) == [t |-> "list", v |-> items]

PyDict(d) == [t |-> "dict", v |-> d]

\* type(v).__name__
TypeName(v) == IF v.t = "None" THEN "NoneType" ELSE v.t

\* bool(v)
Truthy(v) ==
    CASE v.t = "None" -> FALSE
      [] v.t = "str"  -> v.v # ""
      [] v.t = "int"  -> v.v # 0
      [] v.t = "list" -> v.v # <<>>
      [] v.t = "dict" -> DOMAIN v.v # {}

\* str(v) inside an f-string, for the values the requests carry
Str(v) ==
    CASE v.t = "None" -> "None"
      [] v.t = "str"  -> v.v
      [] v.t = "int"  -> "5"
      [] OTHER        -> "[]"

\* text around a needle in the strings the clients send
Fragments == {"", "text/html, ", "re", "what is ", "?"}

\* needle in hay, for two str
Contains(hay, needle) ==
    \E p \in Fragments, q \in Fragments : hay = p \o needle \o q

\* `key in v`: dict key, list element, str substring; other types are not iterable
In(key, v) ==
    CASE v.t = "dict" -> [raised |-> FALSE, value |-> key \in DOMAIN v.v]
      [] v.t = "list" -> [raised |-> FALSE,
                          value |-> \E i \in DOMAIN v.v : v.v[i] = PyStr(key)]
      [] v.t = "str"  -> [raised |-> FALSE, value |-> Contains(v.v, key)]
      [] OTHER        -> [raised |-> TRUE, value |-> FALSE]

\* v.get: only a dict has it
HasGet(v) == v.t = "dict"

\* v.get(key, default) on a dict
Get(v, key, default) == IF key \in DOMAIN v.v THEN v.v[key] ELSE default

AttributeError(v) == "'" \o TypeName(v) \o "' object has no attribute 'get'"

-----------------------------------------------------------------------------
(* What the clients send *)

Paths == {"/health", "/capabilities", "/tools", "/", "/mcp"}

\* values of the Accept header; "" is what headers.get('Accept', '') gives without one
Accepts == {"", "application/json", "text/html, text/event-stream"}

\* request bodies; "" is a request without a body (Content-Length 0 or absent)
Bodies ==
    { "",
      "{action:",
      "5",
      "\"reaction\"",
      "[]",
      "{}",
      "{\"action\": \"ping\"}",
      "{\"action\": \"get_tools\"}",
      "{\"action\": \"capabilities\"}",
      "{\"action\": \"query\"}",
      "{\"action\": \"query\", \"data\": null}",
      "{\"action\": \"query\", \"data\": {\"query\": \"\"}}",
      "{\"action\": \"query\", \"data\": {\"query\": \"What is VAEBZ?\"}}",
      "{\"action\": \"embedding\", \"data\": {\"text\": \"\"}}",
      "{\"action\": \"embedding\", \"data\": {\"text\": \"hello\"}}" }

JSONDecodeError == [t |-> "JSONDecodeError"]

Action(a) == PyDict([action |-> PyStr(a)])

ActionData(a, d) == PyDict([action |-> PyStr(a), data |-> d])

\* json.loads on the bodies above
json_loads(post_data) ==
    CASE post_data = "5"            -> PyInt(5)
      [] post_data = "\"reaction\"" -> PyStr("reaction")
      [] post_data = "[]"           -> PyList(<<>>)
      [] post_data = "{}"           -> PyDict(EmptyDict)
      [] post_data = "{\"action\": \"ping\"}"         -> Action("ping")
      [] post_data = "{\"action\": \"get_tools\"}"    -> Action("get_tools")
      [] post_data = "{\"action\": \"capabilities\"}" -> Action("capabilities")
      [] post_data = "{\"action\": \"query\"}"        -> Action("query")
      [] post_data = "{\"action\": \"query\", \"data\": null}"
            -> ActionData("query", None)
      [] post_data = "{\"action\": \"query\", \"data\": {\"query\": \"\"}}"
            -> ActionData("query", PyDict([query |-> PyStr("")]))
      [] post_data = "{\"action\": \"query\", \"data\": {\"query\": \"What is VAEBZ?\"}}"
            -> ActionData("query", PyDict([query |-> PyStr("What is VAEBZ?")]))
      [] post_data = "{\"action\": \"embedding\", \"data\": {\"text\": \"\"}}"
            -> ActionData("embedding", PyDict([text |-> PyStr("")]))
      [] post_data = "{\"action\": \"embedding\", \"data\": {\"text\": \"hello\"}}"
            -> ActionData("embedding", PyDict([text |-> PyStr("hello")]))
      [] OTHER -> JSONDecodeError

\* str.lower on the query texts above
Lower(s) == IF s = "What is VAEBZ?" THEN "what is vaebz?" ELSE s

\* what requests.post does: an HTTP reply, or an exception (timeout, unreachable host)
Backends ==
    { [kind |-> "http", status_code |-> 200, fields |-> {"response", "embedding"},
       exc |-> ""],
      [kind |-> "http", status_code |-> 200, fields |-> {}, exc |-> ""],
      [kind |-> "http", status_code |-> 500, fields |-> {}, exc |-> ""],
      [kind |-> "raise", status_code |-> 0, fields |-> {},
       exc |-> "HTTPConnectionPool: Max retries exceeded"] }

\* the backend's JSON reply, where it carries the fields
LLMText == "VAEBZ builds AI infrastructure."

EmbeddingVector == <<1, 2, 3>>

\* os.environ as far as the handlers read it
Environs ==
    { [LLM_BINDING |-> "ollama", EMBEDDING_BINDING |-> "ollama"],
      [LLM_BINDING |-> "openai", EMBEDDING_BINDING |-> "openai"] }

DefaultEnviron == [LLM_BINDING |-> "ollama", EMBEDDING_BINDING |-> "ollama"]

LLM_MODEL == "llama3:instruct"

EMBEDDING_MODEL == "bge-m3:latest"

GetRequest(path, accept) ==
    [method |-> "GET", path |-> path, accept |-> accept, body |-> "",
     backend |-> CHOOSE b \in Backends : b.kind = "raise"]

PostRequest(body, backend) ==
    [method |-> "POST", path |-> "/", accept |-> "", body |-> body, backend |-> backend]

\* bodies whose handling reaches requests.post
CallsBackend(body) ==
    body \in { "{\"action\": \"query\", \"data\": {\"query\": \"What is VAEBZ?\"}}",
               "{\"action\": \"embedding\", \"data\": {\"text\": \"hello\"}}" }

\* every request of the request workload
Requests ==
    { GetRequest(p, a) : p \in Paths, a \in Accepts }
    \cup { PostRequest(b, k) : b \in {x \in Bodies : CallsBackend(x)}, k \in Backends }
    \cup { PostRequest(b, CHOOSE k \in Backends : k.kind = "raise") :
             b \in {x \in Bodies : ~CallsBackend(x)} }

\* the requests of the streaming workload
StreamRequests ==
    { GetRequest("/", "text/html, text/event-stream"),
      GetRequest("/", ""),
      PostRequest("{\"action\": \"get_tools\"}", CHOOSE k \in Backends : k.kind = "raise"),
      PostRequest("{action:", CHOOSE k \in Backends : k.kind = "raise") }

NoRequest == [method |-> "", path |-> "", accept |-> "", body |-> "",
              backend |-> CHOOSE b \in Backends : b.kind = "raise"]

-----------------------------------------------------------------------------
(* The action handlers.  A handler's outcome is the dict it returns or the   *)
(* exception that leaves it, with the number of requests.post calls it made. *)

Return(r, n) == [raised |-> FALSE, exc |-> "", response |-> r, calls |-> n]

Raise(e, n) == [raised |-> TRUE, exc |-> e, response |-> None, calls |-> n]

TOOLS(v) == IF v = "mcp_server" THEN <<"query", "embedding">> ELSE <<"query">>

Sources ==
    << [title |-> "VAEBZ Knowledge Base",
        snippet |-> "Information about VAEBZ and TaskHarbinger"] >>

handle_get_tools(v) ==
    [status |-> "ok", message |-> "Tools retrieved", data |-> [tools |-> TOOLS(v)]]

handle_capabilities ==
    [status |-> "ok", message |-> "Capabilities retrieved",
     data |-> [capabilities |-> <<"rag", "embedding", "query">>,
               models |-> [llm |-> LLM_MODEL, embedding |-> EMBEDDING_MODEL],
               api_version |-> "1.0",
               tools |-> TOOLS("mcp_server")]]

\* the capabilities dict simple_mcp_server.py writes inline
simple_capabilities ==
    [status |-> "ok", message |-> "Capabilities retrieved",
     data |-> [capabilities |-> <<"query">>,
               models |-> [llm |-> LLM_MODEL],
               api_version |-> "1.0",
               tools |-> TOOLS("simple_mcp_server")]]

\* default_response rejecting what it was meant to acknowledge
default_response_Rejects(message) ==
    [status |-> "error", message |-> message,
     data |-> [capabilities |-> <<"rag", "embedding", "query">>, api_version |-> "1.0"]]

default_response(message) ==
    [status |-> "ok", message |-> message,
     data |-> [capabilities |-> <<"rag", "embedding", "query">>, api_version |-> "1.0"]]

\* simple_mcp_server.py's inline acknowledgements
simple_default(message) == [status |-> "ok", message |-> message, data |-> EmptyDict]

InvalidJSON == [status |-> "error", message |-> "Invalid JSON data"]

Apology(query_text) ==
    "I'm unable to answer your question about '" \o Str(query_text)
        \o "' at this time. Please try again later."

\* handle_query with the validation of query_text left out
handle_query_NoValidation(data, env, backend) ==
    LET d == Get(data, "data", PyDict(EmptyDict)) IN
    LET query_text == IF HasGet(d) THEN Get(d, "query", PyStr("")) ELSE PyStr("") IN
    IF env.LLM_BINDING = "ollama" /\ backend.kind = "raise"
    THEN Return([status |-> "error",
                 message |-> "Error processing query: " \o backend.exc,
                 data |-> None], 1)
    ELSE IF env.LLM_BINDING = "ollama" /\ backend.status_code = 200
    THEN Return([status |-> "ok", message |-> "Query processed",
                 data |-> [response |-> LLMText, sources |-> Sources]], 1)
    ELSE Return([status |-> "error", message |-> "Failed to process query",
                 data |-> [response |-> Apology(query_text), sources |-> <<>>]],
                IF env.LLM_BINDING = "ollama" THEN 1 ELSE 0)

\* MCPHandler.handle_query
handle_query(data, env, backend) ==
    LET d == Get(data, "data", PyDict(EmptyDict)) IN
    IF ~HasGet(d)
    THEN Return([status |-> "error",
                 message |-> "Error processing query: " \o AttributeError(d),
                 data |-> None], 0)
    ELSE
    LET query_text == Get(d, "query", PyStr("")) IN
    IF ~Truthy(query_text)
    THEN Return([status |-> "error", message |-> "No query provided", data |-> None], 0)
    ELSE IF env.LLM_BINDING = "ollama" /\ backend.kind = "raise"
    THEN Return([status |-> "error",
                 message |-> "Error processing query: " \o backend.exc,
                 data |-> None], 1)
    ELSE IF env.LLM_BINDING = "ollama" /\ backend.status_code = 200
    THEN Return([status |-> "ok", message |-> "Query processed",
                 data |-> [response |-> IF "response" \in backend.fields
                                        THEN LLMText ELSE "No response from LLM",
                           sources |-> Sources]], 1)
    ELSE Return([status |-> "error", message |-> "Failed to process query",
                 data |-> [response |-> Apology(query_text), sources |-> <<>>]],
                IF env.LLM_BINDING = "ollama" THEN 1 ELSE 0)

\* handle_embedding trying the backend a second time after a failed attempt
handle_embedding_Retry(data, env, backend) ==
    LET d == Get(data, "data", PyDict(EmptyDict)) IN
    IF ~HasGet(d)
    THEN Return([status |-> "error",
                 message |-> "Error processing embedding: " \o AttributeError(d),
                 data |-> None], 0)
    ELSE
    LET text == Get(d, "text", PyStr("")) IN
    IF ~Truthy(text)
    THEN Return([status |-> "error", message |-> "No text provided for embedding",
                 data |-> None], 0)
    ELSE IF env.EMBEDDING_BINDING = "ollama" /\ backend.kind = "raise"
    THEN Return([status |-> "error",
                 message |-> "Error processing embedding: " \o backend.exc,
                 data |-> None], 2)
    ELSE IF env.EMBEDDING_BINDING = "ollama" /\ backend.status_code = 200
    THEN Return([status |-> "ok", message |-> "Embedding processed",
                 data |-> [dimensions |-> IF "embedding" \in backend.fields
                                          THEN Len(EmbeddingVector) ELSE 0,
                           model |-> EMBEDDING_MODEL,
                           status |-> "success"]], 1)
    ELSE Return([status |-> "error", message |-> "Embedding service unavailable",
                 data |-> [dimensions |-> 0, model |-> EMBEDDING_MODEL,
                           status |-> "failed"]],
                IF env.EMBEDDING_BINDING = "ollama" THEN 2 ELSE 0)

\* MCPHandler.handle_embedding
handle_embedding(data, env, backend) ==
    LET d == Get(data, "data", PyDict(EmptyDict)) IN
    IF ~HasGet(d)
    THEN Return([status |-> "error",
                 message |-> "Error processing embedding: " \o AttributeError(d),
                 data |-> None], 0)
    ELSE
    LET text == Get(d, "text", PyStr("")) IN
    IF ~Truthy(text)
    THEN Return([status |-> "error", message |-> "No text provided for embedding",
                 data |-> None], 0)
    ELSE IF env.EMBEDDING_BINDING = "ollama" /\ backend.kind = "raise"
    THEN Return([status |-> "error",
                 message |-> "Error processing embedding: " \o backend.exc,
                 data |-> None], 1)
    ELSE IF env.EMBEDDING_BINDING = "ollama" /\ backend.status_code = 200
    THEN Return([status |-> "ok", message |-> "Embedding processed",
                 data |-> [dimensions |-> IF "embedding" \in backend.fields
                                          THEN Len(EmbeddingVector) ELSE 0,
                           model |-> EMBEDDING_MODEL,
                           status |-> "success"]], 1)
    ELSE Return([status |-> "error", message |-> "Embedding service unavailable",
                 data |-> [dimensions |-> 0, model |-> EMBEDDING_MODEL,
                           status |-> "failed"]],
                IF env.EMBEDDING_BINDING = "ollama" THEN 1 ELSE 0)

\* SimpleHTTPRequestHandler.handle_query: no backend, no try
simple_handle_query(data) ==
    LET d == Get(data, "data", PyDict(EmptyDict)) IN
    IF ~HasGet(d) THEN Raise("AttributeError: " \o AttributeError(d), 0)
    ELSE
    LET query_text == Get(d, "query", PyStr("")) IN
    IF ~Truthy(query_text)
    THEN Return([status |-> "error", message |-> "No query provided", data |-> None], 0)
    ELSE Return([status |-> "ok", message |-> "Query processed",
                 data |-> [response |->
                              IF Contains(Lower(Str(query_text)), "vaebz")
                              THEN "VAEBZ is a technology company"
                              ELSE "Based on available information, your query '"
                                      \o Str(query_text) \o "' relates to VAEBZ",
                           sources |-> Sources]], 0)

\* the routing of MCPHandler.do_POST on a parsed JSON object
mcp_route(request_data, env, backend) ==
    LET action == Get(request_data, "action", None) IN
    CASE action = PyStr("query")        -> handle_query(request_data, env, backend)
      [] action = PyStr("embedding")    -> handle_embedding(request_data, env, backend)
      [] action = PyStr("capabilities") -> Return(handle_capabilities, 0)
      [] action = PyStr("get_tools")    -> Return(handle_get_tools("mcp_server"), 0)
      [] OTHER -> Return(default_response("Action '" \o Str(action) \o "' acknowledged"), 0)

\* the routing of SimpleHTTPRequestHandler.do_POST on a parsed JSON object
simple_route(request_data) ==
    LET action == Get(request_data, "action", None) IN
    CASE action = PyStr("query")     -> simple_handle_query(request_data)
      [] action = PyStr("get_tools") -> Return(handle_get_tools("simple_mcp_server"), 0)
      [] OTHER -> Return(simple_default("Action '" \o Str(action) \o "' acknowledged"), 0)

\* do_POST up to "# Send response": the local `response`, or the exception that
\* leaves do_POST
Dispatch(v, request, env) ==
    LET ack(m) == IF v = "mcp_server" THEN default_response(m) ELSE simple_default(m)
    IN
    IF ~(Len(request.body) > 0) THEN Return(ack("Empty request"), 0)
    ELSE
    LET request_data == json_loads(request.body) IN
    IF request_data = JSONDecodeError THEN Return(InvalidJSON, 0)
    ELSE
    LET has == In("action", request_data) IN
    IF has.raised
    THEN Raise("TypeError: argument of type '" \o TypeName(request_data)
                  \o "' is not iterable", 0)
    ELSE IF ~has.value THEN Return(ack("No action specified"), 0)
    ELSE IF ~HasGet(request_data)
    THEN Raise("AttributeError: " \o AttributeError(request_data), 0)
    ELSE IF v = "mcp_server" THEN mcp_route(request_data, env, request.backend)
    ELSE simple_route(request_data)

-----------------------------------------------------------------------------
(* The transport and the queue *)

NoResponse == [code |-> 0, ctype |-> "", body |-> None]

HttpResponse(ctype, body) == [code |-> 200, ctype |-> ctype, body |-> body]

\* WantsSSE comparing the whole header instead of searching it
WantsSSE_Exact(request) == request.accept = "text/event-stream"

\* 'text/event-stream' in accept_header
WantsSSE(request) == Contains(request.accept, "text/event-stream")

\* the branch MCPHandler.do_GET takes
mcp_get_route(request) ==
    IF request.path = "/health" THEN "health"
    ELSE IF WantsSSE(request) THEN "sse"
    ELSE "banner"

\* the branch SimpleHTTPRequestHandler.do_GET takes
simple_get_route(request) ==
    IF WantsSSE(request) THEN "sse"
    ELSE IF request.path = "/health" THEN "health"
    ELSE IF request.path = "/capabilities" \/ request.path = "/" THEN "capabilities"
    ELSE IF request.path = "/tools" THEN "tools"
    ELSE "banner"

GetRoute(v, request) ==
    IF v = "mcp_server" THEN mcp_get_route(request) ELSE simple_get_route(request)

\* what a non-streaming branch of do_GET writes
GetResponse(v, route) ==
    CASE route = "health" ->
            HttpResponse("application/json",
                [status |-> "ok",
                 message |-> IF v = "mcp_server"
                             THEN "LightRAG MCP Server is healthy"
                             ELSE "LightRAG Simple MCP Server is healthy"])
      [] route = "capabilities" -> HttpResponse("application/json", simple_capabilities)
      [] route = "tools" ->
            HttpResponse("application/json", handle_get_tools("simple_mcp_server"))
      [] route = "banner" ->
            HttpResponse("text/plain",
                [text |-> IF v = "mcp_server" THEN "LightRAG MCP Server Running"
                          ELSE "LightRAG Simple MCP Server Running"])
      [] route = "sse" -> HttpResponse("text/event-stream", None)

\* BootstrapEvents with the tools event sent before the connected event
BootstrapEvents_ToolsFirst(v) ==
    << [event |-> "tools", id |-> 0,
        data |-> [type |-> "tools", tools |-> TOOLS(v)]],
       [event |-> "connected", id |-> 0,
        data |-> [status |-> "connected", message |-> "LightRAG MCP Server Connected"]],
       [event |-> "capabilities", id |-> 0,
        data |-> IF v = "mcp_server" THEN handle_capabilities ELSE simple_capabilities] >>

\* the three events a session sends before its loop, in the order of the code
BootstrapEvents(v) ==
    << [event |-> "connected", id |-> 0,
        data |-> [status |-> "connected", message |-> "LightRAG MCP Server Connected"]],
       [event |-> "tools", id |-> 0,
        data |-> [type |-> "tools", tools |-> TOOLS(v)]],
       [event |-> "capabilities", id |-> 0,
        data |-> IF v = "mcp_server" THEN handle_capabilities ELSE simple_capabilities] >>

\* send_sse_event putting the event under an envelope of its own
send_sse_event_Enveloped(event_type, data, id) ==
    [event |-> event_type, data |-> [type |-> event_type, data |-> data], id |-> id]

\* send_sse_event: the event as the client reads it once flushed
send_sse_event(event_type, data, id) == [event |-> event_type, data |-> data, id |-> id]

\* queue_get reading the head without removing it
queue_get_Peek(q) ==
    IF q = <<>> THEN [empty |-> TRUE, item |-> None, rest |-> q]
    ELSE [empty |-> FALSE, item |-> Head(q), rest |-> q]

\* queue_get reporting queue.Empty whatever the queue holds
queue_get_AlwaysEmpty(q) == [empty |-> TRUE, item |-> None, rest |-> q]

\* queue_get taking the newest item instead of the oldest
queue_get_Newest(q) ==
    IF q = <<>> THEN [empty |-> TRUE, item |-> None, rest |-> q]
    ELSE [empty |-> FALSE, item |-> q[Len(q)], rest |-> SubSeq(q, 1, Len(q) - 1)]

\* event_queue.get(block=False): the head and the queue without it, or queue.Empty
queue_get(q) ==
    IF q = <<>> THEN [empty |-> TRUE, item |-> None, rest |-> q]
    ELSE [empty |-> FALSE, item |-> Head(q), rest |-> Tail(q)]

\* queue_put on a queue that holds one item at most and drops the older one
queue_put_DropOldest(q, item) ==
    IF q = <<>> THEN <<item>> ELSE Append(Tail(q), item)

\* event_queue.put(item)
queue_put(q, item) == Append(q, item)

\* the handler of connection cur has returned, or none has started
Idle == pc \in {"idle", "returned", "raised", "CLOSED"}

-----------------------------------------------------------------------------
(* The server *)

InitWith(envs) ==
    /\ variant \in Variants
    /\ environ \in envs
    /\ conns = 0
    /\ cur = 0
    /\ pc = "idle"
    /\ req = NoRequest
    /\ broken = FALSE
    /\ result = None
    /\ calls = 0
    /\ response = NoResponse
    /\ emitted = <<>>
    /\ ticks = 0
    /\ totalTicks = 0
    /\ event_queue = <<>>
    /\ published = <<>>
    /\ taken = <<>>
    /\ sent = <<>>

\* a client connects; the connection waits in the listen backlog
Connect(maxc) ==
    /\ conns < maxc
    /\ conns' = conns + 1
    /\ UNCHANGED <<variant, environ, cur, pc, req, broken, result, calls, response,
                   emitted, ticks, totalTicks, event_queue, published, taken, sent>>

\* serve_forever takes the next connection once the previous handler has returned,
\* and reads its request
Accept(reqs) ==
    /\ Idle
    /\ cur < conns
    /\ \E r \in reqs :
         /\ req' = r
         /\ pc' = IF r.method = "GET" THEN "do_GET" ELSE "do_POST"
    /\ cur' = cur + 1
    /\ broken' = FALSE
    /\ result' = None
    /\ calls' = 0
    /\ response' = NoResponse
    /\ emitted' = <<>>
    /\ ticks' = 0
    /\ totalTicks' = 0
    /\ UNCHANGED <<variant, environ, conns, event_queue, published, taken, sent>>

\* the peer of the connection being handled goes away
Disconnect ==
    /\ ~Idle
    /\ ~broken
    /\ broken' = TRUE
    /\ UNCHANGED <<variant, environ, conns, cur, pc, req, result, calls, response,
                   emitted, ticks, totalTicks, event_queue, published, taken, sent>>

\* do_GET up to the end of a plain response, or up to the SSE headers
DoGet ==
    /\ pc = "do_GET"
    /\ LET route == GetRoute(variant, req) IN
         IF broken
         THEN /\ pc' = "raised"
              /\ UNCHANGED response
         ELSE /\ response' = GetResponse(variant, route)
              /\ pc' = IF route = "sse" THEN "OPENING" ELSE "returned"
    /\ UNCHANGED <<variant, environ, conns, cur, req, broken, result, calls,
                   emitted, ticks, totalTicks, event_queue, published, taken, sent>>

\* Bootstrap putting its events on the queue as well as writing them
Bootstrap_Enqueued ==
    /\ pc = "OPENING"
    /\ IF broken
       THEN /\ pc' = "raised"
            /\ UNCHANGED <<emitted, event_queue, published, taken, sent>>
       ELSE LET next == BootstrapEvents(variant)[Len(emitted) + 1]
                event == [id |-> Len(published) + 1, src |-> cur, payload |-> next.data]
            IN /\ emitted' = Append(emitted, next)
               /\ event_queue' = queue_put(event_queue, event)
               /\ published' = Append(published, event)
               /\ taken' = Append(taken, <<>>)
               /\ sent' = Append(sent, <<>>)
               /\ pc' = IF Len(emitted) + 1 = Len(BootstrapEvents(variant))
                        THEN "STREAMING" ELSE "OPENING"
    /\ UNCHANGED <<variant, environ, conns, cur, req, broken, result, calls, response,
                   ticks, totalTicks>>

\* one of the three send_sse_event calls before the try
Bootstrap ==
    /\ pc = "OPENING"
    /\ IF broken
       THEN /\ pc' = "raised"
            /\ UNCHANGED emitted
       ELSE /\ emitted' = Append(emitted, BootstrapEvents(variant)[Len(emitted) + 1])
            /\ pc' = IF Len(emitted) + 1 = Len(BootstrapEvents(variant))
                     THEN "STREAMING" ELSE "OPENING"
    /\ UNCHANGED <<variant, environ, conns, cur, req, broken, result, calls, response,
                   ticks, totalTicks, event_queue, published, taken, sent>>

\* Tick sleeping only when the queue was empty, so that a backlog is drained
\* within one tick
Tick_NoSleepAfterEmit(maxt) ==
    /\ pc = "STREAMING"
    /\ ticks < N
    /\ totalTicks < maxt
    /\ LET got == queue_get(event_queue) IN
         IF got.empty
         THEN /\ ticks' = ticks + 1
              /\ totalTicks' = totalTicks + 1
              /\ UNCHANGED <<pc, emitted, event_queue, taken, sent>>
         ELSE /\ event_queue' = got.rest
              /\ taken' = [taken EXCEPT ![got.item.id] = Append(@, cur)]
              /\ IF broken
                 THEN /\ pc' = "CLOSED"
                      /\ UNCHANGED <<emitted, sent, ticks, totalTicks>>
                 ELSE /\ emitted' = Append(emitted,
                              send_sse_event("message", got.item.payload, got.item.id))
                      /\ sent' = [sent EXCEPT ![got.item.id] = Append(@, cur)]
                      /\ UNCHANGED <<pc, ticks, totalTicks>>
    /\ UNCHANGED <<variant, environ, conns, cur, req, broken, result, calls, response,
                   published>>

\* Tick of a loop that logs the disconnect and polls on instead of returning
Tick_AfterClose(maxt) ==
    /\ pc \in {"STREAMING", "CLOSED"}
    /\ ticks < N
    /\ totalTicks < maxt
    /\ LET got == queue_get(event_queue) IN
         IF got.empty
         THEN /\ ticks' = ticks + 1
              /\ totalTicks' = totalTicks + 1
              /\ UNCHANGED <<pc, emitted, event_queue, taken, sent>>
         ELSE /\ event_queue' = got.rest
              /\ taken' = [taken EXCEPT ![got.item.id] = Append(@, cur)]
              /\ IF broken
                 THEN /\ pc' = "CLOSED"
                      /\ UNCHANGED <<emitted, sent, ticks, totalTicks>>
                 ELSE /\ emitted' = Append(emitted,
                              send_sse_event("message", got.item.payload, got.item.id))
                      /\ sent' = [sent EXCEPT ![got.item.id] = Append(@, cur)]
                      /\ ticks' = ticks + 1
                      /\ totalTicks' = totalTicks + 1
                      /\ UNCHANGED pc
    /\ UNCHANGED <<variant, environ, conns, cur, req, broken, result, calls, response,
                   published>>

\* Tick announcing a result of status "error" under an event type of its own
Tick_ErrorEvents(maxt) ==
    /\ pc = "STREAMING"
    /\ ticks < N
    /\ totalTicks < maxt
    /\ LET got == queue_get(event_queue) IN
         IF got.empty
         THEN /\ ticks' = ticks + 1
              /\ totalTicks' = totalTicks + 1
              /\ UNCHANGED <<pc, emitted, event_queue, taken, sent>>
         ELSE /\ event_queue' = got.rest
              /\ taken' = [taken EXCEPT ![got.item.id] = Append(@, cur)]
              /\ IF broken
                 THEN /\ pc' = "CLOSED"
                      /\ UNCHANGED <<emitted, sent, ticks, totalTicks>>
                 ELSE /\ emitted' = Append(emitted,
                              send_sse_event(IF got.item.payload.status = "error"
                                             THEN "error" ELSE "message",
                                             got.item.payload, got.item.id))
                      /\ sent' = [sent EXCEPT ![got.item.id] = Append(@, cur)]
                      /\ ticks' = ticks + 1
                      /\ totalTicks' = totalTicks + 1
                      /\ UNCHANGED pc
    /\ UNCHANGED <<variant, environ, conns, cur, req, broken, result, calls, response,
                   published>>

\* Tick leaving in the queue an event whose write failed
Tick_PutBack(maxt) ==
    /\ pc = "STREAMING"
    /\ ticks < N
    /\ totalTicks < maxt
    /\ LET got == queue_get(event_queue) IN
         IF got.empty
         THEN /\ ticks' = ticks + 1
              /\ totalTicks' = totalTicks + 1
              /\ UNCHANGED <<pc, emitted, event_queue, taken, sent>>
         ELSE /\ taken' = [taken EXCEPT ![got.item.id] = Append(@, cur)]
              /\ IF broken
                 THEN /\ pc' = "CLOSED"
                      /\ UNCHANGED <<event_queue, emitted, sent, ticks, totalTicks>>
                 ELSE /\ event_queue' = got.rest
                      /\ emitted' = Append(emitted,
                              send_sse_event("message", got.item.payload, got.item.id))
                      /\ sent' = [sent EXCEPT ![got.item.id] = Append(@, cur)]
                      /\ ticks' = ticks + 1
                      /\ totalTicks' = totalTicks + 1
                      /\ UNCHANGED pc
    /\ UNCHANGED <<variant, environ, conns, cur, req, broken, result, calls, response,
                   published>>

\* one pass of the inner loop: a non-blocking get, the message if there was an
\* event, then time.sleep(1)
Tick(maxt) ==
    /\ pc = "STREAMING"
    /\ ticks < N
    /\ totalTicks < maxt
    /\ LET got == queue_get(event_queue) IN
         IF got.empty
         THEN /\ ticks' = ticks + 1
              /\ totalTicks' = totalTicks + 1
              /\ UNCHANGED <<pc, emitted, event_queue, taken, sent>>
         ELSE /\ event_queue' = got.rest
              /\ taken' = [taken EXCEPT ![got.item.id] = Append(@, cur)]
              /\ IF broken
                 THEN /\ pc' = "CLOSED"
                      /\ UNCHANGED <<emitted, sent, ticks, totalTicks>>
                 ELSE /\ emitted' = Append(emitted,
                              send_sse_event("message", got.item.payload, got.item.id))
                      /\ sent' = [sent EXCEPT ![got.item.id] = Append(@, cur)]
                      /\ ticks' = ticks + 1
                      /\ totalTicks' = totalTicks + 1
                      /\ UNCHANGED pc
    /\ UNCHANGED <<variant, environ, conns, cur, req, broken, result, calls, response,
                   published>>

\* Heartbeat without the restart of the 30 passes
Heartbeat_NoRestart ==
    /\ pc = "STREAMING"
    /\ ticks = N
    /\ Len(emitted) < 8
    /\ IF broken
       THEN /\ pc' = "CLOSED"
            /\ UNCHANGED <<emitted, ticks>>
       ELSE /\ emitted' = Append(emitted,
                    send_sse_event("heartbeat", [type |-> "heartbeat"], 0))
            /\ UNCHANGED <<pc, ticks>>
    /\ UNCHANGED <<variant, environ, conns, cur, req, broken, result, calls, response,
                   totalTicks, event_queue, published, taken, sent>>

\* Heartbeat without the outer loop: the handler returns after the heartbeat
Heartbeat_ThenReturn ==
    /\ pc = "STREAMING"
    /\ ticks = N
    /\ IF broken
       THEN UNCHANGED emitted
       ELSE emitted' = Append(emitted,
                    send_sse_event("heartbeat", [type |-> "heartbeat"], 0))
    /\ pc' = "CLOSED"
    /\ UNCHANGED <<variant, environ, conns, cur, req, broken, result, calls, response,
                   ticks, totalTicks, event_queue, published, taken, sent>>

\* Heartbeat swallowing the failure of its write and starting the next round
Heartbeat_IgnoresFailure ==
    /\ pc = "STREAMING"
    /\ ticks = N
    /\ IF broken
       THEN UNCHANGED emitted
       ELSE emitted' = Append(emitted,
                send_sse_event("heartbeat", [type |-> "heartbeat"], 0))
    /\ ticks' = 0
    /\ UNCHANGED <<variant, environ, conns, cur, pc, req, broken, result, calls,
                   response, totalTicks, event_queue, published, taken, sent>>

\* the heartbeat after the 30 passes; the outer loop then starts the next 30
Heartbeat ==
    /\ pc = "STREAMING"
    /\ ticks = N
    /\ IF broken
       THEN /\ pc' = "CLOSED"
            /\ UNCHANGED <<emitted, ticks>>
       ELSE /\ emitted' = Append(emitted,
                    send_sse_event("heartbeat", [type |-> "heartbeat"], 0))
            /\ ticks' = 0
            /\ UNCHANGED pc
    /\ UNCHANGED <<variant, environ, conns, cur, req, broken, result, calls, response,
                   totalTicks, event_queue, published, taken, sent>>

\* do_POST up to "# Send response"
DoPost ==
    /\ pc = "do_POST"
    /\ LET out == Dispatch(variant, req, environ) IN
         /\ calls' = out.calls
         /\ IF out.raised
            THEN /\ pc' = "raised"
                 /\ UNCHANGED result
            ELSE /\ result' = out.response
                 /\ pc' = "respond"
    /\ UNCHANGED <<variant, environ, conns, cur, req, broken, response,
                   emitted, ticks, totalTicks, event_queue, published, taken, sent>>

\* Respond of a do_POST that puts the result on the queue before writing it
Respond_PublishFirst ==
    /\ pc = "respond"
    /\ LET event == [id |-> Len(published) + 1, src |-> cur, payload |-> result] IN
         /\ event_queue' = queue_put(event_queue, event)
         /\ published' = Append(published, event)
    /\ taken' = Append(taken, <<>>)
    /\ sent' = Append(sent, <<>>)
    /\ IF broken
       THEN /\ pc' = "raised"
            /\ UNCHANGED response
       ELSE /\ response' = HttpResponse("application/json", result)
            /\ pc' = "returned"
    /\ UNCHANGED <<variant, environ, conns, cur, req, broken, result, calls,
                   emitted, ticks, totalTicks>>

\* send_response(200) ... wfile.write(json.dumps(response).encode())
Respond ==
    /\ pc = "respond"
    /\ IF broken
       THEN /\ pc' = "raised"
            /\ UNCHANGED response
       ELSE /\ response' = HttpResponse("application/json", result)
            /\ pc' = "publish"
    /\ UNCHANGED <<variant, environ, conns, cur, req, broken, result, calls,
                   emitted, ticks, totalTicks, event_queue, published, taken, sent>>

\* Publish putting only results of status "ok" on the queue
Publish_OkOnly ==
    /\ pc = "publish"
    /\ LET event == [id |-> Len(published) + 1, src |-> cur, payload |-> result] IN
         IF result.status = "ok"
         THEN /\ event_queue' = queue_put(event_queue, event)
              /\ published' = Append(published, event)
              /\ taken' = Append(taken, <<>>)
              /\ sent' = Append(sent, <<>>)
         ELSE UNCHANGED <<event_queue, published, taken, sent>>
    /\ pc' = "returned"
    /\ UNCHANGED <<variant, environ, conns, cur, req, broken, result, calls, response,
                   emitted, ticks, totalTicks>>

\* event_queue.put(response), the last statement of do_POST
Publish ==
    /\ pc = "publish"
    /\ LET event == [id |-> Len(published) + 1, src |-> cur, payload |-> result] IN
         /\ event_queue' = queue_put(event_queue, event)
         /\ published' = Append(published, event)
    /\ taken' = Append(taken, <<>>)
    /\ sent' = Append(sent, <<>>)
    /\ pc' = "returned"
    /\ UNCHANGED <<variant, environ, conns, cur, req, broken, result, calls, response,
                   emitted, ticks, totalTicks>>

Init == InitWith({DefaultEnviron})

Next ==
    \/ Connect(MaxConns)
    \/ Accept(StreamRequests)
    \/ Disconnect
    \/ DoGet
    \/ Bootstrap
    \/ Tick(MaxTicks)
    \/ Heartbeat
    \/ DoPost
    \/ Respond
    \/ Publish

\* the streaming workload: few kinds of request, sessions followed over two heartbeats
Spec == Init /\ [][Next]_vars

InitRequests == InitWith(Environs)

NextRequests ==
    \/ Connect(MaxReqConns)
    \/ Accept(Requests)
    \/ Disconnect
    \/ DoGet
    \/ Bootstrap
    \/ Tick(MaxReqTicks)
    \/ DoPost
    \/ Respond
    \/ Publish

\* the request workload: every kind of request, sessions followed into their loop
SpecRequests == InitRequests /\ [][NextRequests]_vars

\* the backlog workload starts where MaxBacklog callers have each posted
\* get_tools and were answered while no session was open: every one of their
\* results waits in event_queue
InitBacklog ==
    /\ variant \in Variants
    /\ environ = DefaultEnviron
    /\ conns = MaxBacklog
    /\ cur = MaxBacklog
    /\ pc = "returned"
    /\ req = PostRequest("{\"action\": \"get_tools\"}", CHOOSE k \in Backends : k.kind = "raise")
    /\ broken = FALSE
    /\ result = handle_get_tools(variant)
    /\ calls = 0
    /\ response = HttpResponse("application/json", result)
    /\ emitted = <<>>
    /\ ticks = 0
    /\ totalTicks = 0
    /\ published = [i \in 1..MaxBacklog |-> [id |-> i, src |-> i, payload |-> result]]
    /\ event_queue = published
    /\ taken = [i \in 1..MaxBacklog |-> <<>>]
    /\ sent = [i \in 1..MaxBacklog |-> <<>>]

NextBacklog ==
    \/ Connect(MaxBacklog + MaxBacklogConns)
    \/ Accept(StreamRequests)
    \/ Disconnect
    \/ DoGet
    \/ Bootstrap
    \/ Tick(MaxTicks)
    \/ Heartbeat
    \/ DoPost
    \/ Respond
    \/ Publish

\* the backlog workload: sessions that open on a queue longer than one
\* heartbeat period can drain
SpecBacklog == InitBacklog /\ [][NextBacklog]_vars

\* the streaming workload with the scheduling the code guarantees: time.sleep(1)
\* returns and the loop goes on, so a session that can take a step takes it
FairSpec == Spec /\ WF_vars(Tick(MaxTicks)) /\ WF_vars(Heartbeat)

-----------------------------------------------------------------------------
(* Properties *)

\* connection cur is an SSE session: the event-stream headers went out
IsSession == response.ctype = "text/event-stream"

\* the events published by the handler of connection c
EventsOf(c) == SelectSeq(published, LAMBDA e : e.src = c)

\* the Accept header of the request names text/event-stream
AcceptHasEventStream ==
    req.accept \in {"text/event-stream", "text/html, text/event-stream"}

\* C1: the events a session emits start with connected, tools, capabilities, in
\* that order; message and heartbeat events come only after these three, and a
\* session is in its loop only once all three went out, whatever event_queue holds.
C1_BootstrapFirst ==
    /\ \A i \in DOMAIN emitted :
         IF i <= 3
         THEN emitted[i].event = <<"connected", "tools", "capabilities">>[i]
         ELSE emitted[i].event \in {"message", "heartbeat"}
    /\ pc \in {"STREAMING", "CLOSED"} => Len(emitted) >= 3

\* a session that found an event queued when it opened: it is its fourth event
C1_Witness ==
    /\ pc = "STREAMING"
    /\ Len(emitted) = 4
    /\ emitted[4].event = "message"
    /\ event_queue # <<>>

\* C2: every POST with an empty body or a JSON object for a body, whatever
\* its action and data, has put exactly one event on event_queue by the time its
\* handler has ended, never none and never more.
C2_ExactlyOneEventPerPost ==
    (/\ req.method = "POST"
     /\ req.body = "" \/ json_loads(req.body).t = "dict"
     /\ Idle) => Len(EventsOf(cur)) = 1

\* C3 as first stated: a POST whose body is not valid JSON is answered with
\* status "error", message "Invalid JSON data", and publishes no event.
C3_NoEventForMalformed ==
    (req.method = "POST" /\ req.body = "{action:" /\ pc = "returned") =>
        /\ response.body.status = "error"
        /\ response.body.message = "Invalid JSON data"
        /\ EventsOf(cur) = <<>>

\* C3: a POST whose body is not valid JSON is answered with HTTP 200 and
\* the body {status: "error", message: "Invalid JSON data"}; once that response is
\* written the handler puts exactly one event, that same body, on event_queue,
\* and it puts none if the write of the response fails.
C3_MalformedJSON ==
    (req.method = "POST" /\ req.body = "{action:") =>
        /\ pc \in {"publish", "returned"} =>
              /\ response.code = 200
              /\ response.body = [status |-> "error", message |-> "Invalid JSON data"]
        /\ pc = "returned" =>
              /\ Len(EventsOf(cur)) = 1
              /\ EventsOf(cur)[1].payload = response.body
        /\ pc # "returned" => EventsOf(cur) = <<>>
        /\ pc = "raised" => broken /\ response = NoResponse

\* a malformed POST was answered and its error body is on the queue
C3_Witness ==
    /\ req.method = "POST"
    /\ req.body = "{action:"
    /\ pc = "returned"
    /\ event_queue # <<>>
    /\ event_queue[Len(event_queue)].src = cur

\* C4: every published event is taken off event_queue at most once and is
\* emitted as a message at most once, over all sessions.
C4_AtMostOnce ==
    \A id \in DOMAIN published :
        /\ Len(taken[id]) <= 1
        /\ Len(sent[id]) <= 1

\* two sessions have each emitted an event, and they are different events
C4_Witness ==
    \E i, j \in DOMAIN published :
        /\ sent[i] # <<>>
        /\ sent[j] # <<>>
        /\ sent[i][1] # sent[j][1]

\* an event is waiting on the queue
Queued(id) == \E k \in DOMAIN event_queue : event_queue[k].id = id

C6_AcceptedWhileStreaming ==
    (pc = "STREAMING" /\ cur < conns) => ENABLED Accept(StreamRequests)

\* C7: with no event ever published, a streaming session has emitted, after
\* its three bootstrap events, heartbeats only, one for each completed run of
\* N = 30 sleeps.
C7_HeartbeatCadence ==
    (published = <<>> /\ pc = "STREAMING") =>
        /\ ticks \in 0..30
        /\ Len(emitted) >= 3
        /\ \A i \in 4..Len(emitted) : emitted[i].event = "heartbeat"
        /\ totalTicks = 30 * (Len(emitted) - 3) + ticks

\* a session that has sent its second heartbeat, nothing ever published
C7_Witness ==
    /\ published = <<>>
    /\ pc = "STREAMING"
    /\ Len(emitted) = 5
    /\ totalTicks = 60
    /\ ticks = 0

\* C8: a streaming session stays streaming; the one step out of STREAMING
\* goes to CLOSED, and only in a step that writes (an event was dequeued, or the
\* heartbeat is due) while the peer is gone.
C8_OnlyDisconnectCloses ==
    [][pc = "STREAMING" =>
          \/ pc' = "STREAMING"
          \/ /\ pc' = "CLOSED"
             /\ broken
             /\ event_queue # <<>> \/ ticks = 30]_vars

\* a session that delivered an event, sent a heartbeat and then lost its peer
C8_Witness ==
    /\ pc = "CLOSED"
    /\ broken
    /\ \E i, j \in DOMAIN emitted :
          emitted[i].event = "message" /\ emitted[j].event = "heartbeat"

\* C9: a GET /health whose handler got past its first write returned with
\* 200, application/json and a body of status "ok", whatever its Accept header.
C9_HealthAlwaysOk ==
    (req.method = "GET" /\ req.path = "/health" /\ pc \notin {"do_GET", "raised"}) =>
        /\ pc = "returned"
        /\ response.code = 200
        /\ response.ctype = "application/json"
        /\ response.body.status = "ok"

\* C10 as first stated: a GET becomes an SSE session exactly when its Accept
\* header names text/event-stream, on every path.
C10_UpgradeOnAnyPath ==
    (req.method = "GET" /\ response # NoResponse) =>
        (IsSession <=> AcceptHasEventStream)

\* C10: a GET becomes an SSE session exactly when its Accept header names
\* text/event-stream, on every path, except that mcp_server.py answers /health
\* as a health check whatever the Accept header; a GET without that accept type
\* never becomes a session.
C10_UpgradeExceptHealth ==
    /\ (req.method = "GET" /\ response # NoResponse) =>
          (IsSession <=>
              /\ AcceptHasEventStream
              /\ ~(variant = "mcp_server" /\ req.path = "/health"))
    /\ pc \in {"OPENING", "STREAMING", "CLOSED"} => IsSession /\ req.method = "GET"

\* a GET /tools that asked for an event stream is a streaming session
C10_Witness ==
    /\ req.path = "/tools"
    /\ AcceptHasEventStream
    /\ pc = "STREAMING"
    /\ totalTicks = 1

\* the parsed body of the POST that connection cur sent
RequestData == json_loads(req.body)

\* the POST of connection cur is a JSON object with this action
HasAction(a) ==
    /\ req.method = "POST"
    /\ req.body # ""
    /\ RequestData # JSONDecodeError
    /\ RequestData.t = "dict"
    /\ "action" \in DOMAIN RequestData.v
    /\ RequestData.v.action = PyStr(a)

\* the handler of connection cur has ended and its peer never went away
EndedWithPeer == Idle /\ pc # "idle" /\ ~broken

\* C11: whatever the body of a POST (empty, malformed, JSON that is not an
\* object, an object whose data is not a mapping, any action, any backend
\* outcome), a handler whose caller stayed connected ends having written
\* HTTP 200, application/json and a body that carries a status field.
C11_AlwaysResponds ==
    (req.method = "POST" /\ EndedWithPeer) =>
        /\ pc = "returned"
        /\ response.code = 200
        /\ response.ctype = "application/json"
        /\ "status" \in DOMAIN response.body

\* the data member of the query that connection cur posted; {} when absent
QueryData == Get(RequestData, "data", PyDict(EmptyDict))

\* connection cur posted a query whose data is a mapping with query absent or empty
EmptyQuery ==
    /\ HasAction("query")
    /\ HasGet(QueryData)
    /\ ~Truthy(Get(QueryData, "query", PyStr("")))

BackendFails == req.backend.kind = "raise" \/ req.backend.status_code # 200

\* connection cur posted to mcp_server.py a query with this non-empty text
QueryWith(text) ==
    /\ variant = "mcp_server"
    /\ HasAction("query")
    /\ HasGet(QueryData)
    /\ Get(QueryData, "query", PyStr("")) = PyStr(text)
    /\ text # ""

\* C13: in mcp_server.py a query with non-empty data.query whose backend call
\* fails in any way (other status than 200, timeout, transport error) gets, with
\* HTTP 200, a degraded result: status "error", data.response an apology that
\* contains the query text, data.sources the empty list.
C13_DegradedOnAnyFailure ==
    (QueryWith("What is VAEBZ?") /\ BackendFails /\ pc = "returned") =>
        /\ response.code = 200
        /\ response.body.status = "error"
        /\ response.body.data # None
        /\ response.body.data.response = Apology(PyStr("What is VAEBZ?"))
        /\ response.body.data.sources = <<>>

\* the data.text of the embedding request that connection cur posted; "" when absent
EmbeddingText == Get(Get(RequestData, "data", PyDict(EmptyDict)), "text", PyStr(""))

\* C14: in mcp_server.py an embedding request with non-empty data.text whose
\* backend call fails in any way gets a failure payload whose data carries
\* dimensions 0, and one whose data.text is absent or empty gets a structured
\* validation error without any backend call.
C14_EmbeddingFailurePayload ==
    (variant = "mcp_server" /\ HasAction("embedding") /\ pc = "returned") =>
        /\ response.body.status \in {"ok", "error"}
        /\ (Truthy(EmbeddingText) /\ BackendFails) =>
              /\ response.body.status = "error"
              /\ response.body.data # None
              /\ response.body.data.dimensions = 0
        /\ ~Truthy(EmbeddingText) =>
              /\ response.body.status = "error"
              /\ response.body.data = None
              /\ calls = 0

\* the actions that do_POST of variant v routes to a handler of their own
Recognized(v) ==
    IF v = "mcp_server"
    THEN {PyStr("query"), PyStr("embedding"), PyStr("capabilities"), PyStr("get_tools")}
    ELSE {PyStr("query"), PyStr("get_tools")}

\* connection cur posted a JSON object
PostedObject ==
    /\ req.method = "POST"
    /\ req.body # ""
    /\ RequestData # JSONDecodeError
    /\ RequestData.t = "dict"

\* C15: a POST whose JSON object has no action member, or names an action the
\* variant does not route, is not rejected: its result has status "ok", and for
\* an unrecognized action the message names that action.
C15_UnknownActionAcknowledged ==
    (PostedObject /\ pc # "do_POST") =>
        /\ "action" \notin DOMAIN RequestData.v =>
              /\ result # None
              /\ result.status = "ok"
              /\ result.message = "No action specified"
        /\ ("action" \in DOMAIN RequestData.v
                /\ RequestData.v.action \notin Recognized(variant)) =>
              /\ result # None
              /\ result.status = "ok"
              /\ result.message = "Action '" \o Str(RequestData.v.action) \o "' acknowledged"
        /\ pc = "returned" => response.body = result

\* mcp_server.py acknowledged the action ping, by name
C15_Witness ==
    /\ variant = "mcp_server"
    /\ HasAction("ping")
    /\ pc = "returned"
    /\ response.body.status = "ok"
    /\ response.body.message = "Action 'ping' acknowledged"

\* the message events among the events that session cur emitted, in order
Messages == SelectSeq(emitted, LAMBDA e : e.event = "message")

\* C16: the message events of one session appear in the order in which their
\* events were published: ids number the events in publish order, and a later
\* message of the session always carries a larger id.
C16_FifoWithinSession ==
    /\ \A i, j \in DOMAIN Messages : i < j => Messages[i].id < Messages[j].id
    /\ \A i, j \in DOMAIN event_queue : i < j => event_queue[i].id < event_queue[j].id
    /\ \A i \in DOMAIN published : published[i].id = i

\* a session emitted two events that were published before it opened, oldest first
C16_Witness ==
    /\ pc = "STREAMING"
    /\ Len(Messages) >= 2
    /\ Messages[1].id = 1
    /\ Messages[2].id = 2

\* C17: a peer that goes away at any point of a session's life, the three
\* bootstrap writes included, is caught by the session: the handler returns
\* (CLOSED) and no exception leaves do_GET.
C17_DisconnectAlwaysCaught ==
    (req.method = "GET" /\ IsSession) => pc # "raised"

\* C18: the data of a message event that a session emits is the very result
\* that was written as the JSON body to the caller of the POST that published
\* it: the handler publishes the body it has just written, and the session
\* emits the published payload unchanged.
C18_SamePayload ==
    /\ (req.method = "POST" /\ pc = "returned") =>
          /\ published # <<>>
          /\ published[Len(published)].src = cur
          /\ published[Len(published)].payload = response.body
    /\ \A i \in DOMAIN emitted :
          emitted[i].event = "message" =>
              /\ emitted[i].id \in DOMAIN published
              /\ emitted[i].data = published[emitted[i].id].payload

\* a session emitted the answer that a query got from the backend
C18_Witness ==
    /\ variant = "mcp_server"
    /\ pc = "STREAMING"
    /\ Len(Messages) = 1
    /\ Messages[1].data.message = "Query processed"
    /\ Messages[1].data.data.response = LLMText
    /\ Messages[1].data = published[1].payload

\* the heartbeat events among the events that session cur emitted
Heartbeats == SelectSeq(emitted, LAMBDA e : e.event = "heartbeat")

\* the events that the session of connection c took from event_queue
TakenBy(c) == {id \in DOMAIN taken : \E k \in DOMAIN taken[id] : taken[id][k] = c}

\* C19: a streaming session takes at most one event per tick and sleeps one
\* tick whether or not it emitted one; a heartbeat follows every N ticks
\* whatever the traffic, so no more than N message events stand between two
\* heartbeats (or before the first), even when the queue holds more than N.
C19_OnePerTick ==
    (IsSession /\ pc \in {"STREAMING", "CLOSED"}) =>
        /\ ticks <= N
        /\ totalTicks = N * Len(Heartbeats) + ticks
        /\ Len(Messages) <= totalTicks
        /\ Cardinality(TakenBy(cur)) <= totalTicks + (IF pc = "CLOSED" THEN 1 ELSE 0)
        /\ \A i \in DOMAIN emitted :
              (i + N) \in DOMAIN emitted =>
                  \E k \in i..(i + N) : emitted[k].event # "message"

\* a session that opened on a backlog of more than N events emitted N of them,
\* then its heartbeat, then the next one, while events still wait
C19_Witness ==
    /\ pc = "STREAMING"
    /\ Len(emitted) = 3 + N + 2
    /\ \A k \in 4..(3 + N) : emitted[k].event = "message"
    /\ emitted[3 + N + 1].event = "heartbeat"
    /\ emitted[3 + N + 2].event = "message"
    /\ Len(event_queue) > 0
    /\ totalTicks = N + 1

\* C20: CLOSED is terminal. While the handler of a connection is in CLOSED
\* the session emits nothing more, takes nothing more from event_queue and
\* does not go back to OPENING or STREAMING; the only thing that follows is the
\* server accepting the next connection.
C20_ClosedIsTerminal ==
    [][pc = "CLOSED" =>
          \/ /\ cur' = cur
             /\ pc' = "CLOSED"
             /\ emitted' = emitted
             /\ event_queue' = event_queue
             /\ taken' = taken
             /\ sent' = sent
          \/ /\ cur' = cur + 1
             /\ pc' \in {"do_GET", "do_POST"}
             /\ taken' = taken
             /\ event_queue' = event_queue]_vars

\* a session closed while events still wait and another connection is pending
C20_Witness ==
    /\ pc = "CLOSED"
    /\ IsSession
    /\ Len(event_queue) > 0
    /\ cur < conns

\* C21: event_queue shrinks only by a streaming session taking its head, and
\* grows only by a POST handler appending at its tail; whatever else happens
\* (any number of later requests, any wait) leaves it as it is, so events
\* published while no session is open wait in publish order, and the session
\* that takes one has written its three bootstrap events before.
C21_ShrinksOnlyByDequeue ==
    [][event_queue' # event_queue =>
          \/ /\ pc = "publish"
             /\ event_queue' = Append(event_queue, published'[Len(published')])
          \/ /\ pc = "STREAMING"
             /\ IsSession
             /\ Len(emitted) >= 3
             /\ event_queue # <<>>
             /\ event_queue' = Tail(event_queue)
             /\ \/ emitted' = Append(emitted,
                        [event |-> "message", data |-> Head(event_queue).payload,
                         id |-> Head(event_queue).id])
                \/ broken /\ pc' = "CLOSED" /\ emitted' = emitted]_vars

\* two events, published by the first and the third connection while no
\* session was open, were emitted in that order by the fourth, a session
C21_Witness ==
    /\ cur = 4
    /\ pc = "STREAMING"
    /\ Len(published) = 2
    /\ published[1].src = 1
    /\ published[2].src = 3
    /\ Len(emitted) = 5
    /\ emitted[4].id = 1
    /\ emitted[5].id = 2
    /\ event_queue = <<>>

\* the dispatch of connection cur reaches requests.post: mcp_server.py, an
\* ollama binding, and a query or an embedding request with non-empty text
ReachesBackend ==
    /\ variant = "mcp_server"
    /\ \/ /\ HasAction("query")
          /\ environ.LLM_BINDING = "ollama"
          /\ HasGet(QueryData)
          /\ Truthy(Get(QueryData, "query", PyStr("")))
       \/ /\ HasAction("embedding")
          /\ environ.EMBEDDING_BINDING = "ollama"
          /\ Truthy(EmbeddingText)

\* C22: one dispatch calls the backend at most once. A query or embedding
\* request that reaches the backend calls it exactly once, and when that one
\* attempt fails (another status than 200, or requests.post raises) the request
\* ends with a result of status "error"; no request calls it twice, and a
\* request that does not reach it calls it not at all.
C22_AtMostOneBackendCall ==
    /\ calls \in {0, 1}
    /\ pc \in {"respond", "publish", "returned"} =>
          /\ calls = (IF ReachesBackend THEN 1 ELSE 0)
          /\ (ReachesBackend /\ BackendFails) => result.status = "error"

\* an embedding request was answered with a failure after its one attempt
\* came back with status 500
C22_Witness ==
    /\ variant = "mcp_server"
    /\ HasAction("embedding")
    /\ req.backend.status_code = 500
    /\ pc = "returned"
    /\ calls = 1
    /\ response.body.status = "error"

\* the event types of the stream
EventTypes == {"connected", "tools", "capabilities", "message", "heartbeat"}

\* the events that the session of connection c wrote to its peer
SentBy(c) == {id \in DOMAIN sent : \E k \in DOMAIN sent[id] : sent[id][k] = c}

\* C23: a session emits events of the types connected, tools, capabilities,
\* message and heartbeat only, and every event it took from the queue and
\* wrote, a degraded or error result included, went out with type message.
C23_FiveEventTypes ==
    /\ \A i \in DOMAIN emitted : emitted[i].event \in EventTypes
    /\ \A id \in SentBy(cur) :
          \E i \in DOMAIN emitted :
              /\ emitted[i].event = "message"
              /\ emitted[i].id = id
              /\ emitted[i].data = published[id].payload
    /\ Len(Messages) = Cardinality(SentBy(cur))

\* a session emitted the degraded result of a query as a message event
C23_Witness ==
    /\ pc = "STREAMING"
    /\ Len(emitted) = 4
    /\ emitted[4].event = "message"
    /\ emitted[4].data.status = "error"
    /\ emitted[4].data.message = "Failed to process query"

\* event id waits in event_queue, once, and no session has taken it
InQueue(id) ==
    /\ Cardinality({k \in DOMAIN event_queue : event_queue[k].id = id}) = 1
    /\ taken[id] = <<>>
    /\ sent[id] = <<>>

\* event id was taken by one session, which wrote it as a message
EmittedOnce(id) ==
    /\ ~Queued(id)
    /\ Len(taken[id]) = 1
    /\ sent[id] = taken[id]
    /\ taken[id][1] = cur =>
          Cardinality({i \in DOMAIN emitted : emitted[i].id = id}) = 1

\* event id was taken by one session, whose write of it failed: the session
\* closed and the event reached nobody
Dropped(id) ==
    /\ ~Queued(id)
    /\ Len(taken[id]) = 1
    /\ sent[id] = <<>>
    /\ taken[id][1] <= cur
    /\ taken[id][1] = cur =>
          /\ pc = "CLOSED"
          /\ \A i \in DOMAIN emitted : emitted[i].id # id

\* C24: every published event is in exactly one place: waiting in the queue,
\* emitted as a message by exactly one session, or dropped by the one session
\* that took it and could not write it. A dropped event is not put back, so
\* no other session ever takes or emits it.
C24_Conservation ==
    /\ DOMAIN taken = DOMAIN published
    /\ DOMAIN sent = DOMAIN published
    /\ \A k \in DOMAIN event_queue : event_queue[k].id \in DOMAIN published
    /\ \A id \in DOMAIN published :
          \/ InQueue(id)
          \/ EmittedOnce(id)
          \/ Dropped(id)

\* an event was dropped by a session that closed, and a later session is
\* streaming on an empty queue without having received it
C24_Witness ==
    /\ pc = "STREAMING"
    /\ totalTicks >= 1
    /\ event_queue = <<>>
    /\ \E id \in DOMAIN published :
          /\ Dropped(id)
          /\ taken[id][1] < cur
          /\ \A i \in DOMAIN emitted : emitted[i].id # id

\* C25: once the peer of a streaming session is gone, a step of the session
\* either closes it, taking at most the one event whose write fails and
\* sleeping no more, or is a sleep on an empty queue that brings the round one
\* tick closer to its heartbeat, whose write closes it. The round has N ticks,
\* so no more than N ticks pass between the disconnect and CLOSED.
C25_ClosesWithinRound ==
    [][(pc = "STREAMING" /\ broken) =>
          /\ ticks <= N
          /\ broken'
          /\ \/ /\ pc' = "CLOSED"
                /\ \/ event_queue # <<>> /\ event_queue' = Tail(event_queue)
                   \/ ticks = N /\ event_queue' = event_queue
                /\ ticks' = ticks
                /\ totalTicks' = totalTicks
                /\ emitted' = emitted
             \/ /\ pc' = "STREAMING"
                /\ event_queue = <<>>
                /\ event_queue' = <<>>
                /\ ticks' = ticks + 1
                /\ ticks' <= N
                /\ emitted' = emitted
             \/ /\ conns' = conns + 1
                /\ UNCHANGED <<pc, ticks, totalTicks, emitted, event_queue>>]_vars

\* a session whose peer went while the queue was empty slept to the end of
\* its first round and closed at the heartbeat, which was never emitted
C25_Witness ==
    /\ pc = "CLOSED"
    /\ broken
    /\ ticks = N
    /\ totalTicks = N
    /\ Len(emitted) = 3
    /\ event_queue = <<>>

\* C26: do_POST writes the response before it publishes, and publishing is
\* its last step. A POST handler has published only once it has written its
\* 200 response with the published result as body, and has then returned; a
\* handler that an exception left, a failed write of the response included,
\* has published nothing; and a session emits only results of handlers that
\* had returned before the session was accepted.
C26_ResponseBeforePublish ==
    /\ req.method = "POST" =>
          /\ Len(EventsOf(cur)) <= 1
          /\ EventsOf(cur) # <<>> =>
                /\ pc = "returned"
                /\ response.code = 200
                /\ response.body = EventsOf(cur)[1].payload
          /\ pc = "returned" => EventsOf(cur) # <<>>
    /\ req.method = "GET" => EventsOf(cur) = <<>>
    /\ \A i \in DOMAIN emitted :
          emitted[i].event = "message" => published[emitted[i].id].src < cur

\* a caller went away before its response was written: the write raised and
\* the result it would have carried was not published
C26_Witness ==
    /\ req.method = "POST"
    /\ pc = "raised"
    /\ broken
    /\ result # None
    /\ result.message = "Tools retrieved"
    /\ response = NoResponse
    /\ EventsOf(cur) = <<>>

\* sequence q starts with sequence p
IsPrefix(p, q) == Len(p) <= Len(q) /\ SubSeq(q, 1, Len(p)) = p

\* C27: frame conditions on event_queue. While the connection being handled
\* is a GET that is not streaming (a health, capabilities, tools or banner
\* answer, or a session in OPENING) no step changes the queue; while it is a
\* POST no step removes an event from it; while it is a GET, a session in its
\* loop included, no step adds one or publishes anything.
C27_QueueFrame ==
    [][/\ (req.method = "GET" /\ pc # "STREAMING") =>
             event_queue' = event_queue
       /\ req.method = "POST" => IsPrefix(event_queue, event_queue')
       /\ req.method = "GET" =>
             /\ Len(event_queue') <= Len(event_queue)
             /\ published' = published]_vars

\* a health check was answered while an event waited in the queue, and the
\* event still waits
C27_Witness ==
    /\ req.method = "GET"
    /\ req.path = "/health"
    /\ ~IsSession
    /\ pc = "returned"
    /\ response.ctype = "application/json"
    /\ Len(event_queue) = 1
    /\ event_queue = published

====
